---- MODULE Spec2Model ----
(***************************************************************************)
(* Portfolio executors of borg (src/python/borg/portfolios.py) as a state  *)
(* machine.  One behaviour is one call  portfolio(task, suite, budget).    *)
(* CPU time is counted in ticks; a solver process, the planner and the     *)
(* domain are the environment, whose choices are drawn with \E.            *)
(***************************************************************************)
EXTENDS Integers, Sequences, FiniteSets, TLC

(* ------------------------------ bounds --------------------------------- *)

\* largest budget.cpu_seconds (ticks) handed to Random, Baseline, PureModel
MaxBudget == 3

\* model.interval: width of one bin of the survival model, in ticks
Interval == 2

\* number of bins of the curves of the survival model
Bins == 3

\* largest CPU time (ticks) one call of the planner adds to the accountant
MaxPlanCost == 1

\* runs of an episode that may consume no CPU time unless the solvers stall
MaxFree == 2

\* largest slice (ticks) of UniformPortfolio: budgets are 0..MaxSlice times n * 100
MaxSlice == 1

\* slices of one call of UniformPortfolio within which a process may end without a final answer
MaxEarly == 3

\* slices of length zero followed in one call of UniformPortfolio
MaxSpin == 3

\* attempt objects constructed in one behaviour of the attempts
MaxAttempts == 3

(* ------------------------- program constants --------------------------- *)

\* PureModelPortfolio.__init__: self._runs_limit = 256
runs_limit == 256

\* OraclePortfolio.__call__: budget_count = 100
budget_count == 100

\* UniformPortfolio.__call__: the literal 100 in budget.cpu_seconds / (len(suite.solvers) * 100)
UniformRounds == 100

(* ----------------------------- the suite ------------------------------- *)

\* suite.solvers, by index into sorted(suite.solvers)
Solvers == {0, 1}

NumSolvers == Cardinality(Solvers)

None == "None"

\* what a solver process hands back: None or an answer, named by its description
Answers == {None, "SATISFIABLE", "UNSATISFIABLE", "OPTIMUM FOUND"}

Variants == {"random", "baseline", "uniform", "pure", "oracle", "preplanning"}

Min(a, b) == IF a <= b THEN a ELSE b

Max(a, b) == IF a >= b THEN a ELSE b

\* int(numpy.ceil(a / b)) for b > 0
CeilDiv(a, b) == IF a <= 0 THEN -((-a) \div b) ELSE (a + b - 1) \div b

VARIABLES
    variant,        \* the portfolio class called
    objective,      \* task.opb.objective is not None
    budget,         \* budget.cpu_seconds
    stall,          \* environment: every solver run ends at once, the planner is fixed
    selected,       \* Random: selected;  Baseline: self._solver_name
    pc,             \* position of the call
    cpu,            \* accountant.total.cpu_seconds
    elapsed,        \* PureModel: local elapsed
    i,              \* PureModel: iterations of the for loop begun
    plan,           \* PureModel: local plan
    failures,       \* PureModel: local failures
    model,          \* PureModel: local model, as the failure list it is conditioned on
    remaining,      \* PureModel: local remaining
    remaining_b,    \* PureModel: local remaining_b
    sb,             \* PureModel: local (s, b)
    duration,       \* duration of the invocation issued last
    answer,         \* local answer
    result,         \* value returned by the call
    error,          \* exception raised by the call
    inflight,       \* bounded invocations issued and not yet returned
    processes,      \* Uniform: processes, each with elapsed and terminated
    next_process,   \* Uniform: position of itertools.cycle(processes)
    process,        \* Uniform: local process
    budget_each,    \* Uniform: local budget_each
    planned,        \* history: the plan as the planner returned it last
    exit,           \* history: how the call ended
    invocations,    \* history: the invocations issued, in order
    outcomes,       \* history: whether the answer each returned was final, in order
    regress,        \* PureModel: self._regress is not None
    self_model,     \* PureModel: self._model
    initial_model,  \* PureModel: local initial_model
    self_plan,      \* Preplanning: self._plan
    rest,           \* Oracle, Preplanning: the plan entries the for loop has still to visit
    first,          \* history: invocations and outcomes of the first call on the instance
    environment,    \* lookup: environment.named_solvers
    lookup,         \* lookup: the handle, the operation called on it and where it stands
    heap,           \* attempts: the attempt objects constructed, by identity
    calls           \* history: the operations invoked on resolved solvers, in order

vars == << variant, objective, budget, stall, selected, pc, cpu, elapsed, i, plan,
           failures, model, remaining, remaining_b, sb, duration, answer, result,
           error, inflight, processes, next_process, process, budget_each,
           planned, exit, invocations, outcomes, regress, self_model, initial_model,
           self_plan, rest, first, environment, lookup, heap, calls >>

\* the state of the portfolios
portfolioVars ==
    << variant, objective, budget, stall, selected, pc, cpu, elapsed, i, plan,
       failures, model, remaining, remaining_b, sb, duration, answer, result,
       error, inflight, processes, next_process, process, budget_each,
       planned, exit, invocations, outcomes, regress, self_model, initial_model,
       self_plan, rest, first >>

\* the state of the lookup handles and of the attempts
lookupVars == << environment, lookup, heap, calls >>

(* ------------------------- handles and attempts ------------------------ *)

\* the names a handle may carry
Names == {"a", "b"}

\* the solvers and preprocessors an environment may register
Registered == {"s1", "s2"}

\* environment.named_solvers: every registry of some of the names
Environments == UNION { [D -> Registered] : D \in SUBSET Names }

\* a solver as an attempt or a task refers to it: a registered one or a handle
SolverRef(s) == <<"solver", s>>

\* the handle LookupSolver(name) or LookupPreprocessor(name) itself
HandleRef(n) == <<"lookup", n>>

\* nothing was returned
NoResult == [kind |-> "none", attempt |-> 0, task |-> "unset", owner |-> <<"none", "">>,
             value |-> "unset"]

(* ------------------------------ domain --------------------------------- *)

\* mutant: the test for None is missing, no answer counts as an answer
is_finalNoneAccepted(obj, ans) ==
    \/ ans = None
    \/ IF ~obj
       THEN ans \in {"SATISFIABLE", "UNSATISFIABLE"}
       ELSE ans \in {"OPTIMUM FOUND", "UNSATISFIABLE"}

\* mutant: the objective of the task is not looked at
is_finalIgnoresObjective(obj, ans) ==
    ans # None /\ ans \in {"SATISFIABLE", "UNSATISFIABLE"}

\* PseudoBooleanSatisfiability.is_final(task, answer)
is_final(obj, ans) ==
    IF ans = None
    THEN FALSE
    ELSE IF ~obj
         THEN ans \in {"SATISFIABLE", "UNSATISFIABLE"}
         ELSE ans \in {"OPTIMUM FOUND", "UNSATISFIABLE"}

(* ------------------------------ planner -------------------------------- *)

RECURSIVE PlanCost(_)
\* capacity a plan uses: the sum of b + 1 over its entries
PlanCost(p) == IF p = << >> THEN 0 ELSE (Head(p)[2] + 1) + PlanCost(Tail(p))

\* every plan over curves of cap bins: at most one entry per solver, within capacity
Plans(cap) ==
    { p \in UNION { [1..n -> Solvers \X (0..(cap - 1))] : n \in 0..NumSolvers } :
        /\ \A j, k \in DOMAIN p : j # k => p[j][1] # p[k][1]
        /\ PlanCost(p) <= cap }

\* self._planner.plan(model.log_survival[..., :remaining_b], model.log_weights)
PlannerPlan(rb) ==
    IF stall THEN { << <<0, 0>> >> } ELSE Plans(Min(Max(rb, 0), Bins))

\* CPU time the planning adds to the accountant
PlannerCpu == IF stall THEN {0} ELSE 0..MaxPlanCost

\* CPU time a run_then_stop(d) of PureModelPortfolio adds to the accountant
RunCpu(d) ==
    IF d <= 0 \/ stall THEN {0}
    ELSE IF i <= MaxFree THEN 0..d ELSE 1..d

\* answers a run_then_stop may hand back; a stalled run crashes (None) or answers at once
RunAnswers == IF stall THEN {None, "UNSATISFIABLE"} ELSE Answers

(* --------------------------- initial states ---------------------------- *)

\* no handle is called and no attempt exists
LookupIdle ==
    /\ environment = << >>
    /\ lookup = [kind |-> "LookupSolver", name |-> "a", op |-> "none", pc |-> "idle",
                 budget |-> 0, looked_up |-> "unset", inner |-> 0, result |-> NoResult,
                 error |-> None]
    /\ heap = << >>
    /\ calls = << >>

\* a local model the call has not assigned yet
UnsetModel == [weights |-> "unset", failures |-> << >>]

\* the instance was not called before
NoFirstCall ==
    [called |-> FALSE, invocations |-> << >>, outcomes |-> << >>,
     result |-> None, error |-> None]

\* the model a portfolio is constructed with: trained weights, conditioned on no failure
TrainedModel == [weights |-> "trained", failures |-> << >>]

\* data.get_common_budget(): the budget of the recorded runs, budget_count bins of Interval
CommonBudget == budget_count * Interval

Budgets(v) ==
    IF v = "uniform"
    THEN { k * NumSolvers * UniformRounds : k \in 0..MaxSlice }
    ELSE IF v = "oracle"
         THEN 0..MaxBudget \cup {CommonBudget}
         ELSE IF v = "preplanning"
              THEN 0..MaxBudget \cup {Bins * Interval}
              ELSE 0..MaxBudget

\* the locals and the history of a call that has not begun
PortfolioLocals ==
    /\ cpu = 0
    /\ elapsed = 0
    /\ i = 0
    /\ plan = << >>
    /\ failures = << >>
    /\ model = << >>
    /\ remaining = 0
    /\ remaining_b = 0
    /\ sb = <<0, 0>>
    /\ duration = 0
    /\ answer = None
    /\ result = None
    /\ error = None
    /\ inflight = 0
    /\ processes = [p \in Solvers |-> [elapsed |-> 0, terminated |-> FALSE]]
    /\ next_process = 0
    /\ process = 0
    /\ budget_each = 0
    /\ planned = << >>
    /\ exit = None
    /\ invocations = << >>
    /\ outcomes = << >>
    /\ self_model = TrainedModel
    /\ initial_model = UnsetModel
    /\ rest = << >>
    /\ first = NoFirstCall

Init ==
    /\ variant \in Variants
    /\ objective \in BOOLEAN
    /\ budget \in Budgets(variant)
    /\ stall \in (IF variant = "pure" THEN BOOLEAN ELSE {FALSE})
    /\ selected \in (IF variant \in {"random", "baseline"} THEN Solvers ELSE {0})
    /\ regress \in (IF variant = "pure" /\ ~stall THEN BOOLEAN ELSE {FALSE})
    /\ self_plan \in (IF variant = "preplanning" THEN Plans(Bins - 1) ELSE {<< >>})
    /\ pc = "start"
    /\ PortfolioLocals
    /\ LookupIdle

\* no portfolio is called
PortfolioIdle ==
    /\ variant = "random"
    /\ objective = FALSE
    /\ budget = 0
    /\ stall = FALSE
    /\ selected = 0
    /\ regress = FALSE
    /\ self_plan = << >>
    /\ pc = "idle"
    /\ PortfolioLocals

(* ------------------------- PureModelPortfolio -------------------------- *)

\* self._model.with_weights(predicted_weights): a new model, the receiver is left as it is
with_weights(m, w) == [m EXCEPT !.weights = w]

\* initial_model: self._model, or self._model with the weights the regression predicts
InitialModel ==
    IF ~regress THEN self_model ELSE with_weights(self_model, "predicted")


\* mutant: the plan is derived from the unconditioned initial model
ConditionNothing(f) == << >>

\* mutant: the model conditioned for the plan before is conditioned again
ConditionPrevious(f) == model \o f

\* initial_model.condition(failures): the failures the new model is conditioned on
Condition(f) == initial_model.failures \o f


\* mutant: the loop admits one iteration more than self._runs_limit
LoopContinuesOffByOne(n) == n <= runs_limit

\* for i in xrange(self._runs_limit)
LoopContinues(n) == n < runs_limit


\* mutant: the budget check lets an iteration start with no budget left
BudgetExhaustedStrict(bud, el) == bud < el

\* if budget.cpu_seconds <= elapsed: break
BudgetExhausted(bud, el) == bud <= el

\* if len(plan) == 0
PlanExhausted(p) == Len(p) = 0


\* mutant: the duration is not truncated to the remaining budget
DurationUntruncated(rem, b) == (b + 1) * Interval

\* duration = min(remaining, (b + 1) * model.interval)
Duration(rem, b) == Min(rem, (b + 1) * Interval)


\* mutant: the failures are kept as a set, a repeated pair is not recorded again
RecordFailureOnce(f, s, b) ==
    IF \E k \in DOMAIN f : f[k] = <<s, b>> THEN f ELSE Append(f, <<s, b>>)

\* failures.append((s, b))
RecordFailure(f, s, b) == Append(f, <<s, b>>)


\* mutant: the invocation does not block, the call goes on with its loop
AfterInvokeAsync == "loop"

\* process.run_then_stop(duration) blocks: the call waits at the invocation
AfterInvoke == "running"

PureUnchangedOthers ==
    UNCHANGED << variant, objective, budget, stall, selected, processes,
                 next_process, process, budget_each, regress, self_model,
                 self_plan, rest, first,
                 environment, lookup, heap, calls >>


\* with borg.accounting() as accountant; initial_model = self._model; plan = []; failures = []
PureStart ==
    /\ pc = "start" /\ variant = "pure"
    /\ pc' = "loop"
    /\ initial_model' = InitialModel
    /\ plan' = << >> /\ failures' = << >>
    /\ UNCHANGED << cpu, elapsed, i, model, remaining, remaining_b, sb, duration,
                    answer, result, error, inflight, planned, exit, invocations, outcomes >>
    /\ PureUnchangedOthers

\* the head of the for loop and the budget check
PureLoop ==
    /\ pc = "loop" /\ variant = "pure"
    /\ IF LoopContinues(i)
       THEN /\ i' = i + 1
            /\ elapsed' = cpu
            /\ IF BudgetExhausted(budget, cpu)
               THEN pc' = "done" /\ result' = None /\ exit' = "break"
               ELSE pc' = "plan" /\ UNCHANGED << result, exit >>
       ELSE /\ pc' = "done" /\ result' = None /\ exit' = "limit"
            /\ UNCHANGED << i, elapsed >>
    /\ UNCHANGED << cpu, plan, failures, model, remaining, remaining_b, sb, duration,
                    answer, error, inflight, planned, invocations, outcomes >>
    /\ UNCHANGED initial_model
    /\ PureUnchangedOthers

\* if len(plan) == 0: condition the initial model and plan again
PurePlan ==
    /\ pc = "plan" /\ variant = "pure"
    /\ pc' = "pop"
    /\ IF PlanExhausted(plan)
       THEN /\ model' = Condition(failures)
            /\ remaining' = budget - elapsed
            /\ remaining_b' = CeilDiv(budget - elapsed, Interval)
            /\ \E p \in PlannerPlan(CeilDiv(budget - elapsed, Interval)) :
                   plan' = p /\ planned' = p
            /\ \E c \in PlannerCpu : cpu' = cpu + c
       ELSE UNCHANGED << model, remaining, remaining_b, plan, planned, cpu >>
    /\ UNCHANGED << elapsed, i, failures, sb, duration, answer, result, error,
                    inflight, exit, invocations, outcomes >>
    /\ UNCHANGED initial_model
    /\ PureUnchangedOthers

\* (s, b) = plan.pop(0); remaining; duration; start the process and issue run_then_stop
PurePop ==
    /\ pc = "pop" /\ variant = "pure"
    /\ IF plan = << >>
       THEN /\ pc' = "raised" /\ error' = "IndexError" /\ exit' = "error"
            /\ UNCHANGED << plan, sb, remaining, duration, inflight, invocations >>
       ELSE /\ sb' = Head(plan)
            /\ plan' = Tail(plan)
            /\ remaining' = budget - cpu
            /\ duration' = Duration(budget - cpu, Head(plan)[2])
            /\ inflight' = inflight + 1
            /\ invocations' = Append(invocations,
                   [s |-> Head(plan)[1], b |-> Head(plan)[2],
                    duration |-> Duration(budget - cpu, Head(plan)[2]),
                    left |-> budget - cpu, top |-> elapsed, term |-> {}])
            /\ pc' = AfterInvoke
            /\ UNCHANGED << error, exit >>
    /\ UNCHANGED << cpu, elapsed, i, failures, model, remaining_b, answer, result,
                    planned, outcomes >>
    /\ UNCHANGED initial_model
    /\ PureUnchangedOthers

\* run_then_stop(duration) returns
PureReturn ==
    /\ pc = "running" /\ variant = "pure"
    /\ inflight > 0
    /\ \E c \in RunCpu(duration), a \in RunAnswers :
          /\ cpu' = cpu + c
          /\ answer' = a
          /\ outcomes' = Append(outcomes, is_final(objective, a))
    /\ inflight' = inflight - 1
    /\ pc' = "judge"
    /\ UNCHANGED << elapsed, i, plan, failures, model, remaining, remaining_b, sb,
                    duration, result, error, planned, exit, invocations >>
    /\ UNCHANGED initial_model
    /\ PureUnchangedOthers

\* if suite.domain.is_final(task, answer): return answer; else: failures.append((s, b))
PureJudge ==
    /\ pc = "judge" /\ variant = "pure"
    /\ IF is_final(objective, answer)
       THEN /\ pc' = "done" /\ result' = answer /\ exit' = "final"
            /\ UNCHANGED failures
       ELSE /\ failures' = RecordFailure(failures, sb[1], sb[2])
            /\ pc' = "loop"
            /\ UNCHANGED << result, exit >>
    /\ UNCHANGED << cpu, elapsed, i, plan, model, remaining, remaining_b, sb, duration,
                    answer, error, inflight, planned, invocations, outcomes >>
    /\ UNCHANGED initial_model
    /\ PureUnchangedOthers

(* ------------------- RandomPortfolio, BaselinePortfolio ---------------- *)

SingleUnchangedOthers ==
    UNCHANGED << variant, objective, budget, stall, cpu, elapsed, i, plan, failures,
                 model, remaining, remaining_b, sb, processes, next_process, process,
                 budget_each, planned, regress, self_model, initial_model,
                 self_plan, rest, first,
                 environment, lookup, heap, calls >>

\* the one invocation of Random and Baseline: solver sel, run_then_stop(budget.cpu_seconds)
SingleInvoke(sel) ==
    /\ duration' = budget
    /\ inflight' = inflight + 1
    /\ invocations' = Append(invocations,
           [s |-> sel, b |-> 0, duration |-> budget, left |-> budget, top |-> 0,
            term |-> {}])
    /\ pc' = AfterInvoke
    /\ UNCHANGED << answer, result, error, exit, outcomes >>

\* return <process>.run_then_stop(budget.cpu_seconds): the answer is returned as it is
SingleReturn ==
    /\ inflight > 0
    /\ \E a \in Answers :
          /\ answer' = a
          /\ result' = a
          /\ outcomes' = Append(outcomes, is_final(objective, a))
    /\ inflight' = inflight - 1
    /\ pc' = "done"
    /\ exit' = "returned"
    /\ UNCHANGED << selected, duration, error, invocations >>

\* selected = numpy.random.randint(len(solvers)); solvers[selected].start(task).run_then_stop(...)
RandomCall ==
    /\ pc = "start" /\ variant = "random"
    /\ \E sel \in Solvers : selected' = sel /\ SingleInvoke(sel)
    /\ SingleUnchangedOthers

RandomReturn ==
    /\ pc = "running" /\ variant = "random"
    /\ SingleReturn
    /\ SingleUnchangedOthers

\* process = suite.solvers[self._solver_name].start(task); process.run_then_stop(...)
BaselineCall ==
    /\ pc = "start" /\ variant = "baseline"
    /\ SingleInvoke(selected)
    /\ UNCHANGED selected
    /\ SingleUnchangedOthers

BaselineReturn ==
    /\ pc = "running" /\ variant = "baseline"
    /\ SingleReturn
    /\ SingleUnchangedOthers

(* --------------------------- UniformPortfolio -------------------------- *)

RECURSIVE SumElapsed(_, _)
\* sum(p.elapsed for p in processes)
SumElapsed(procs, S) ==
    IF S = {} THEN 0
    ELSE LET p == CHOOSE q \in S : TRUE
         IN procs[p].elapsed + SumElapsed(procs, S \ {p})

\* budget_each = budget.cpu_seconds / (len(suite.solvers) * 100)
BudgetEach(bud) == bud \div (NumSolvers * UniformRounds)

\* mutant: the budget left is not compared with the slice
finishedWhenAllTerminated == \A p \in Solvers : processes[p].terminated

\* finished()
finished ==
    \/ budget - SumElapsed(processes, Solvers) < budget_each
    \/ \A p \in Solvers : processes[p].terminated


\* mutant: the cycle does not advance
CycleNextStuck(idx) == idx

\* next_process.next() of itertools.cycle(processes): the position after idx
CycleNext(idx) == (idx + 1) % NumSolvers

\* answers with which a process may end within its slice
UniformAnswers ==
    { a \in Answers : is_final(objective, a) \/ Len(invocations) <= MaxEarly }

Terminated == { p \in Solvers : processes[p].terminated }

UniformUnchangedOthers ==
    UNCHANGED << variant, objective, budget, stall, selected, cpu, elapsed, i, plan,
                 failures, model, remaining, remaining_b, sb, planned, regress,
                 self_model, initial_model, self_plan, rest, first,
                 environment, lookup, heap, calls >>

\* budget_each; processes = [s.start(task) ...]; next_process = itertools.cycle(processes)
UniformStart ==
    /\ pc = "start" /\ variant = "uniform"
    /\ budget_each' = BudgetEach(budget)
    /\ processes' = [p \in Solvers |-> [elapsed |-> 0, terminated |-> FALSE]]
    /\ next_process' = 0
    /\ pc' = "loop"
    /\ UNCHANGED << process, duration, answer, result, error, inflight, exit,
                    invocations, outcomes >>
    /\ UniformUnchangedOthers

\* while not finished(): process = next_process.next(); if not process.terminated: run_then_pause
UniformLoop ==
    /\ pc = "loop" /\ variant = "uniform"
    /\ budget_each > 0 \/ Len(invocations) < MaxSpin
    /\ IF finished
       THEN /\ pc' = "done" /\ result' = None /\ exit' = "finished"
            /\ UNCHANGED << process, next_process, duration, inflight, invocations >>
       ELSE /\ process' = next_process
            /\ next_process' = CycleNext(next_process)
            /\ IF ~processes[next_process].terminated
               THEN /\ duration' = budget_each
                    /\ inflight' = inflight + 1
                    /\ invocations' = Append(invocations,
                           [s |-> next_process, b |-> 0, duration |-> budget_each,
                            left |-> budget - SumElapsed(processes, Solvers), top |-> 0,
                            term |-> Terminated])
                    /\ pc' = AfterInvoke
               ELSE /\ pc' = "loop"
                    /\ UNCHANGED << duration, inflight, invocations >>
            /\ UNCHANGED << result, exit >>
    /\ UNCHANGED << processes, budget_each, answer, error, outcomes >>
    /\ UniformUnchangedOthers

\* run_then_pause(budget_each) returns: the process used its slice and is paused,
\* or it ended within the slice with an answer or with none
UniformReturn ==
    /\ pc = "running" /\ variant = "uniform"
    /\ inflight > 0
    /\ \/ /\ processes' = [processes EXCEPT ![process].elapsed = @ + duration]
          /\ answer' = None
          /\ outcomes' = Append(outcomes, FALSE)
       \/ \E c \in 0..duration, a \in UniformAnswers :
             /\ processes' = [processes EXCEPT ![process] =
                                 [elapsed |-> @.elapsed + c, terminated |-> TRUE]]
             /\ answer' = a
             /\ outcomes' = Append(outcomes, is_final(objective, a))
    /\ inflight' = inflight - 1
    /\ pc' = "judge"
    /\ UNCHANGED << next_process, process, budget_each, duration, result, error, exit,
                    invocations >>
    /\ UniformUnchangedOthers

\* if suite.domain.is_final(task, answer): return answer
UniformJudge ==
    /\ pc = "judge" /\ variant = "uniform"
    /\ IF is_final(objective, answer)
       THEN pc' = "done" /\ result' = answer /\ exit' = "final"
       ELSE pc' = "loop" /\ UNCHANGED << result, exit >>
    /\ UNCHANGED << processes, next_process, process, budget_each, duration, answer,
                    error, inflight, invocations, outcomes >>
    /\ UniformUnchangedOthers

(* ----------------- OraclePortfolio, PreplanningPortfolio --------------- *)

\* interval = data.get_common_budget() / budget_count
OracleInterval == CommonBudget \div budget_count

\* planner.plan(log_survival[None, ...]): plans over the first bins, or one run of all bins
OraclePlans ==
    Plans(Bins - 1) \cup { << <<s, budget_count - 1>> >> : s \in Solvers }

\* assert remaining - this_budget > -1e-1, a tick being one second
BudgetAssertion(rem, this_budget) == 10 * (rem - this_budget) > -1


\* mutant: the loop consumes the stored plan as it follows it
IteratedPlanPopped(p) == Tail(p)

\* for (s, b) in self._plan: the loop reads the stored plan and leaves it as it is
IteratedPlan(p) == p

\* answers of a run: any in the first call, of the same finality as then in the second
FollowAnswers ==
    IF first.called /\ Len(outcomes) < Len(first.outcomes)
    THEN { a \in Answers : is_final(objective, a) = first.outcomes[Len(outcomes) + 1] }
    ELSE Answers

FollowUnchangedOthers ==
    UNCHANGED << variant, objective, budget, stall, selected, cpu, elapsed, i,
                 failures, model, remaining_b, processes, next_process, process,
                 budget_each, regress, self_model, initial_model,
                 environment, lookup, heap, calls >>

\* the plan of the Oracle is made in the call; remaining = budget.cpu_seconds
OracleStart ==
    /\ pc = "start" /\ variant = "oracle"
    /\ \E p \in OraclePlans : plan' = p /\ planned' = p /\ rest' = p
    /\ remaining' = budget
    /\ pc' = "step"
    /\ UNCHANGED << sb, duration, answer, result, error, inflight, exit, invocations,
                    outcomes, self_plan, first >>
    /\ FollowUnchangedOthers

\* remaining = budget.cpu_seconds; the plan is self._plan, made by __init__
PreplanningStart ==
    /\ pc = "start" /\ variant = "preplanning"
    /\ rest' = self_plan
    /\ remaining' = budget
    /\ pc' = "step"
    /\ UNCHANGED << plan, planned, sb, duration, answer, result, error, inflight, exit,
                    invocations, outcomes, self_plan, first >>
    /\ FollowUnchangedOthers

\* one entry of the for loop: this_budget, the assertion, start and run_then_stop
FollowStep(interval) ==
    /\ pc = "step"
    /\ IF rest = << >>
       THEN /\ pc' = "done" /\ result' = None /\ exit' = "exhausted"
            /\ UNCHANGED << rest, sb, duration, error, inflight, invocations, self_plan >>
       ELSE LET s == Head(rest)[1]
                b == Head(rest)[2]
                this_budget == (b + 1) * interval
            IN  IF ~BudgetAssertion(remaining, this_budget)
                THEN /\ pc' = "raised" /\ error' = "AssertionError" /\ exit' = "error"
                     /\ sb' = <<s, b>>
                     /\ UNCHANGED << rest, duration, result, inflight, invocations,
                                     self_plan >>
                ELSE /\ sb' = <<s, b>>
                     /\ rest' = Tail(rest)
                     /\ self_plan' = IF variant = "preplanning"
                                     THEN IteratedPlan(self_plan) ELSE self_plan
                     /\ duration' = this_budget
                     /\ inflight' = inflight + 1
                     /\ invocations' = Append(invocations,
                            [s |-> s, b |-> b, duration |-> this_budget,
                             left |-> remaining, top |-> 0, term |-> {}])
                     /\ pc' = AfterInvoke
                     /\ UNCHANGED << result, error, exit >>
    /\ UNCHANGED << plan, planned, remaining, answer, outcomes, first >>
    /\ FollowUnchangedOthers

OracleStep == variant = "oracle" /\ FollowStep(OracleInterval)

\* this_budget = (b + 1) * self._model.interval
PreplanningStep == variant = "preplanning" /\ FollowStep(Interval)

\* run_then_stop(this_budget) returns; remaining -= this_budget
FollowReturn ==
    /\ pc = "running" /\ variant \in {"oracle", "preplanning"}
    /\ inflight > 0
    /\ \E a \in FollowAnswers :
          /\ answer' = a
          /\ outcomes' = Append(outcomes, is_final(objective, a))
    /\ remaining' = remaining - duration
    /\ inflight' = inflight - 1
    /\ pc' = "judge"
    /\ UNCHANGED << plan, planned, rest, sb, duration, result, error, exit, invocations,
                    self_plan, first >>
    /\ FollowUnchangedOthers

\* if suite.domain.is_final(task, answer): return answer
FollowJudge ==
    /\ pc = "judge" /\ variant \in {"oracle", "preplanning"}
    /\ IF is_final(objective, answer)
       THEN pc' = "done" /\ result' = answer /\ exit' = "final"
       ELSE pc' = "step" /\ UNCHANGED << result, exit >>
    /\ UNCHANGED << plan, planned, rest, remaining, sb, duration, answer, error,
                    inflight, invocations, outcomes, self_plan, first >>
    /\ FollowUnchangedOthers

\* the same PreplanningPortfolio is called again with the same task and budget
PreplanningAgain ==
    /\ pc \in {"done", "raised"} /\ variant = "preplanning"
    /\ ~first.called
    /\ first' = [called |-> TRUE, invocations |-> invocations, outcomes |-> outcomes,
                 result |-> result, error |-> error]
    /\ pc' = "start"
    /\ invocations' = << >> /\ outcomes' = << >>
    /\ result' = None /\ error' = None /\ exit' = None /\ answer' = None
    /\ rest' = << >> /\ remaining' = 0 /\ duration' = 0 /\ sb' = <<0, 0>>
    /\ UNCHANGED << plan, planned, inflight, self_plan >>
    /\ FollowUnchangedOthers

Next ==
    \/ OracleStart
    \/ OracleStep
    \/ PreplanningStart
    \/ PreplanningStep
    \/ FollowReturn
    \/ FollowJudge
    \/ PreplanningAgain
    \/ RandomCall
    \/ RandomReturn
    \/ BaselineCall
    \/ BaselineReturn
    \/ UniformStart
    \/ UniformLoop
    \/ UniformReturn
    \/ UniformJudge
    \/ PureStart
    \/ PureLoop
    \/ PurePlan
    \/ PurePop
    \/ PureReturn
    \/ PureJudge

Spec == Init /\ [][Next]_vars

(* ------------------------------ attempts ------------------------------- *)

\* Attempt.__init__(solver, budget, cost, task, answer): the object of identity id
Attempt(solver, bud, cost, task, ans, id) ==
    [kind |-> "Attempt", solver |-> solver, inner |-> 0, budget |-> bud, cost |-> cost,
     task |-> task, answer |-> ans, given |-> solver, origin |-> id]

\* borg.RecycledAttempt(solver, budget, cost, task, answer): an attempt of these fields
RecycledAttempt(solver, bud, cost, task, ans, id) ==
    [Attempt(solver, bud, cost, task, ans, id) EXCEPT !.kind = "RecycledAttempt"]

\* WrappedAttempt.__init__(solver, inner): only self._solver and self._inner are set
WrappedAttempt(solver, inner, h) ==
    [kind |-> "WrappedAttempt", solver |-> solver, inner |-> inner, budget |-> -1,
     cost |-> -1, task |-> "unset", answer |-> "unset", given |-> solver,
     origin |-> h[inner].origin]

IsWrapped(h, id) == h[id].kind = "WrappedAttempt"

\* the property solver of Attempt and of WrappedAttempt: self._solver
AttemptSolver(h, id) == h[id].solver

RECURSIVE AttemptBudget(_, _)
RECURSIVE AttemptCost(_, _)
RECURSIVE AttemptTask(_, _)
RECURSIVE AttemptAnswer(_, _)

\* mutant: the wrapper reads the field of its inner attempt instead of its property
AttemptBudgetOneLevel(h, id) ==
    IF IsWrapped(h, id) THEN h[h[id].inner].budget ELSE h[id].budget

\* the property budget: self._inner.budget, or self._budget
AttemptBudget(h, id) ==
    IF IsWrapped(h, id) THEN AttemptBudget(h, h[id].inner) ELSE h[id].budget

\* the property cost: self._inner.cost, or self._cost
AttemptCost(h, id) ==
    IF IsWrapped(h, id) THEN AttemptCost(h, h[id].inner) ELSE h[id].cost

\* the property task: self._inner.task, or self._task
AttemptTask(h, id) ==
    IF IsWrapped(h, id) THEN AttemptTask(h, h[id].inner) ELSE h[id].task

\* the property answer: self._inner.answer, or self._answer
AttemptAnswer(h, id) ==
    IF IsWrapped(h, id) THEN AttemptAnswer(h, h[id].inner) ELSE h[id].answer

\* some code constructs an Attempt
NewAttempt ==
    /\ Len(heap) < MaxAttempts
    /\ \E s \in Registered, b \in 1..2, a \in {None, "SATISFIABLE"} :
          heap' = Append(heap,
                     Attempt(SolverRef(s), b, b - 1, "t1", a, Len(heap) + 1))
    /\ UNCHANGED << environment, lookup, calls >>
    /\ UNCHANGED portfolioVars

\* some code wraps an attempt: assert isinstance(inner, AbstractAttempt)
WrapAttempt ==
    /\ Len(heap) < MaxAttempts
    /\ \E n \in Names, inner \in 1..Len(heap) :
          heap' = Append(heap, WrappedAttempt(HandleRef(n), inner, heap))
    /\ UNCHANGED << environment, lookup, calls >>
    /\ UNCHANGED portfolioVars

AttemptInit == PortfolioIdle /\ LookupIdle

AttemptNext ==
    \/ NewAttempt
    \/ WrapAttempt

AttemptSpec == AttemptInit /\ [][AttemptNext]_vars

(* --------------------- LookupSolver, LookupPreprocessor ---------------- *)

\* the names borg/solvers/attempts.py defines
AttemptsNames ==
    {"AbstractAttempt", "AbstractRunAttempt", "AbstractPreprocessingAttempt",
     "Attempt", "WrappedAttempt", "RunAttempt", "WrappedRunAttempt",
     "PreprocessingAttempt", "WrappedPreprocessingAttempt"}

\* the operations of the two handle classes
HandleOps(kind) ==
    IF kind = "LookupSolver"
    THEN {"solve", "get_seeded"}
    ELSE {"solve", "get_seeded", "preprocess", "extend", "make_task"}

\* mutant: a name that is not registered resolves to a default solver
LookUpWithDefault(env, name) == IF name \in DOMAIN env THEN env[name] ELSE "s1"

\* look_up: environment.named_solvers[self._name]
LookUp(env, name) == IF name \in DOMAIN env THEN env[name] ELSE "KeyError"

\* mutant: the attempt returned names the resolved solver
ReturnedSolverResolved(name, looked_up) == SolverRef(looked_up)

\* the first argument of borg.RecycledAttempt(self, ...): the handle
ReturnedSolver(name, looked_up) == HandleRef(name)

\* the attribute seeded of a registered solver
Seeded(s) == s = "s1"

\* one operation invoked on a resolved solver
Call(s, op) == [solver |-> s, op |-> op, task |-> "t1", budget |-> lookup.budget]

LookupInit ==
    /\ PortfolioIdle
    /\ environment \in Environments
    /\ \E k \in {"LookupSolver", "LookupPreprocessor"}, n \in Names, b \in 1..2 :
          \E o \in HandleOps(k) :
             lookup = [kind |-> k, name |-> n, op |-> o, pc |-> "called", budget |-> b,
                       looked_up |-> "unset", inner |-> 0, result |-> NoResult,
                       error |-> None]
    /\ heap = << >>
    /\ calls = << >>

\* looked_up = self.look_up(environment) in solve, extend, make_task, get_seeded
LookupLookUp ==
    /\ lookup.pc = "called" /\ lookup.op # "preprocess"
    /\ LET r == LookUp(environment, lookup.name)
       IN  IF r = "KeyError"
           THEN lookup' = [lookup EXCEPT !.pc = "raised", !.error = "KeyError"]
           ELSE lookup' = [lookup EXCEPT !.pc = "resolved", !.looked_up = r]
    /\ UNCHANGED << environment, heap, calls >>
    /\ UNCHANGED portfolioVars

\* inner = looked_up.solve(task, budget, random, environment)
LookupSolveInner ==
    /\ lookup.pc = "resolved" /\ lookup.op = "solve"
    /\ \E c \in {0, lookup.budget}, t \in {"t1", "t2"}, a \in {None, "SATISFIABLE"} :
          heap' = Append(heap, Attempt(SolverRef(lookup.looked_up), lookup.budget, c,
                                       t, a, Len(heap) + 1))
    /\ calls' = Append(calls, Call(lookup.looked_up, "solve"))
    /\ lookup' = [lookup EXCEPT !.pc = "inner", !.inner = Len(heap) + 1]
    /\ UNCHANGED environment
    /\ UNCHANGED portfolioVars

\* return borg.RecycledAttempt(self, inner.budget, inner.cost, inner.task, inner.answer)
LookupSolveReturn ==
    /\ lookup.pc = "inner" /\ lookup.op = "solve"
    /\ heap' = Append(heap,
                  RecycledAttempt(ReturnedSolver(lookup.name, lookup.looked_up),
                                  AttemptBudget(heap, lookup.inner),
                                  AttemptCost(heap, lookup.inner),
                                  AttemptTask(heap, lookup.inner),
                                  AttemptAnswer(heap, lookup.inner),
                                  Len(heap) + 1))
    /\ lookup' = [lookup EXCEPT !.pc = "done",
                     !.result = [NoResult EXCEPT !.kind = "attempt",
                                                 !.attempt = Len(heap) + 1]]
    /\ UNCHANGED << environment, calls >>
    /\ UNCHANGED portfolioVars

\* return self.look_up(environment).seeded
LookupGetSeeded ==
    /\ lookup.pc = "resolved" /\ lookup.op = "get_seeded"
    /\ lookup' = [lookup EXCEPT !.pc = "done",
                     !.result = [NoResult EXCEPT !.kind = "seeded",
                         !.value = IF Seeded(lookup.looked_up) THEN "True" ELSE "False"]]
    /\ UNCHANGED << environment, heap, calls >>
    /\ UNCHANGED portfolioVars

\* return looked_up.extend(task, answer, environment)
LookupExtend ==
    /\ lookup.pc = "resolved" /\ lookup.op = "extend"
    /\ calls' = Append(calls, Call(lookup.looked_up, "extend"))
    /\ \E a \in {None, "SATISFIABLE"} :
          lookup' = [lookup EXCEPT !.pc = "done",
                        !.result = [NoResult EXCEPT !.kind = "answer", !.value = a]]
    /\ UNCHANGED << environment, heap >>
    /\ UNCHANGED portfolioVars

\* task = looked_up.make_task(...); return the task wrapped with self
LookupMakeTask ==
    /\ lookup.pc = "resolved" /\ lookup.op = "make_task"
    /\ calls' = Append(calls, Call(lookup.looked_up, "make_task"))
    /\ \E t \in {"t1.out", "t1.outdir"}, directory \in BOOLEAN :
          lookup' = [lookup EXCEPT !.pc = "done",
                        !.result = [NoResult EXCEPT
                            !.kind = IF directory
                                     THEN "WrappedPreprocessedDirectoryTask"
                                     ELSE "WrappedPreprocessedTask",
                            !.task = t,
                            !.owner = HandleRef(lookup.name)]]
    /\ UNCHANGED << environment, heap >>
    /\ UNCHANGED portfolioVars

\* preprocess: the import of WrappedPreprocessorAttempt, then look_up, the
\* preprocess of the resolved preprocessor and the wrapping of its attempt
LookupPreprocess ==
    /\ lookup.pc = "called" /\ lookup.op = "preprocess"
    /\ IF "WrappedPreprocessorAttempt" \notin AttemptsNames
       THEN /\ lookup' = [lookup EXCEPT !.pc = "raised", !.error = "ImportError"]
            /\ UNCHANGED << heap, calls >>
       ELSE LET r == LookUp(environment, lookup.name)
            IN  IF r = "KeyError"
                THEN /\ lookup' = [lookup EXCEPT !.pc = "raised", !.error = "KeyError"]
                     /\ UNCHANGED << heap, calls >>
                ELSE /\ \E c \in {0, lookup.budget}, a \in {None, "SATISFIABLE"} :
                           heap' = Append(
                               Append(heap, Attempt(SolverRef(r), lookup.budget, c,
                                                    "t1", a, Len(heap) + 1)),
                               WrappedAttempt(HandleRef(lookup.name), Len(heap) + 1,
                                   Append(heap, Attempt(SolverRef(r), lookup.budget, c,
                                                        "t1", a, Len(heap) + 1))))
                     /\ calls' = Append(calls, Call(r, "preprocess"))
                     /\ lookup' = [lookup EXCEPT !.pc = "done", !.looked_up = r,
                                      !.inner = Len(heap) + 1,
                                      !.result = [NoResult EXCEPT !.kind = "attempt",
                                                      !.attempt = Len(heap) + 2]]
    /\ UNCHANGED environment
    /\ UNCHANGED portfolioVars

LookupNext ==
    \/ LookupLookUp
    \/ LookupSolveInner
    \/ LookupSolveReturn
    \/ LookupGetSeeded
    \/ LookupExtend
    \/ LookupMakeTask
    \/ LookupPreprocess

LookupSpec == LookupInit /\ [][LookupNext]_vars

(* ------------------------------ properties ----------------------------- *)

IsPrefix(f, g) == Len(f) <= Len(g) /\ \A k \in 1..Len(f) : f[k] = g[k]

Pure == variant = "pure"

Uniform == variant = "uniform"

Ended == pc \in {"done", "raised"}

\* some invocation issued so far returned a final answer
SomeFinal == \E k \in 1..Len(outcomes) : outcomes[k]

\* the outcomes is_final has judged so far
Judged == IF pc = "judge" THEN Len(outcomes) - 1 ELSE Len(outcomes)

\* the (s, b) of the invocations judged so far whose answer was not final, in order
NonFinalPairs ==
    LET F[k \in 0..Len(invocations)] ==
            IF k = 0 THEN << >>
            ELSE IF k <= Judged /\ ~outcomes[k]
                 THEN Append(F[k - 1], <<invocations[k].s, invocations[k].b>>)
                 ELSE F[k - 1]
    IN F[Len(invocations)]

\* C1: in PureModelPortfolio the first final answer is returned as it is and no
\* invocation follows it; a call in which no invocation is final returns None.
C1_FirstFinalOrNone ==
    Pure =>
        /\ \A k \in 1..Len(outcomes) : outcomes[k] => k = Len(invocations)
        /\ (pc # "judge" /\ ~Ended) => ~SomeFinal
        /\ Ended =>
              IF SomeFinal
              THEN pc = "done" /\ result = answer /\ is_final(objective, result)
              ELSE pc = "done" /\ result = None /\ error = None

\* C2: every portfolio returns None or an answer that is_final accepts.
C2_ReturnsFinalOrNone ==
    (pc = "done" /\ result # None) => is_final(objective, result)

\* C3: every invocation of PureModelPortfolio for a plan entry (s, b) is given
\* min(budget left at the invocation, (b + 1) * interval), never more than is left.
C3_DurationIsMin ==
    Pure =>
        \A k \in 1..Len(invocations) :
            /\ invocations[k].duration =
                   Min(invocations[k].left, (invocations[k].b + 1) * Interval)
            /\ invocations[k].duration <= invocations[k].left

C3_Witness ==
    /\ Pure /\ pc = "running"
    /\ invocations[Len(invocations)].duration > 0
    /\ invocations[Len(invocations)].duration
           < (invocations[Len(invocations)].b + 1) * Interval

C5_FailuresAreTheNonFinalRuns ==
    [][Pure => (IsPrefix(failures, failures') /\ failures' = NonFinalPairs')]_vars

C5_Witness ==
    /\ Pure /\ ~stall
    /\ Len(failures) >= 2
    /\ failures[1] = failures[2]

\* C6: PureModelPortfolio issues at most runs_limit invocations; when that many
\* were issued and none was final the call returns None and raises nothing.
C6_RunsLimit ==
    Pure =>
        /\ Len(invocations) <= runs_limit
        /\ pc \in {"plan", "pop"} => Len(invocations) < runs_limit
        /\ (Ended /\ Len(invocations) = runs_limit /\ ~SomeFinal) =>
              pc = "done" /\ result = None /\ error = None

C6_Witness ==
    /\ Pure /\ pc = "done" /\ exit = "limit"
    /\ Len(invocations) = runs_limit
    /\ cpu < budget
    /\ result = None

\* C7: an empty plan handed to PureModelPortfolio while budget remains raises
\* no error; the call invokes no solver for it and ends with None.
C7_EmptyPlanEndsWithNone ==
    (Pure /\ planned = << >> /\ Ended) =>
        pc = "done" /\ result = None /\ error = None

\* C8: an iteration of PureModelPortfolio that starts with the accounted CPU
\* time at or above the budget plans nothing and invokes nothing, the call
\* returns None; with budget 0 nothing is invoked.
C8_NoWorkWithoutBudget ==
    Pure =>
        /\ pc \in {"plan", "pop", "running", "judge"} => elapsed < budget
        /\ \A k \in 1..Len(invocations) : invocations[k].top < budget
        /\ exit = "break" => (pc = "done" /\ result = None /\ budget <= elapsed)
        /\ budget = 0 => (invocations = << >> /\ planned = << >>)

C8_Witness ==
    /\ Pure /\ pc = "done" /\ exit = "break"
    /\ budget > 0
    /\ elapsed = budget
    /\ Len(invocations) >= 1

\* C9: in every portfolio at most one bounded invocation is outstanding; the
\* next one is issued only after the one before it returned.
C9_OneOutstanding ==
    /\ inflight \in {0, 1}
    /\ Len(invocations) - Len(outcomes) = inflight

C9_Witness ==
    /\ Uniform /\ pc = "running" /\ inflight = 1
    /\ Len(invocations) >= 2
    /\ \A p \in Solvers : ~processes[p].terminated

\* the slices of process p among the slices j with lo < j < hi
SlicesBetween(p, lo, hi) ==
    Cardinality({ j \in (lo + 1)..(hi - 1) : invocations[j].s = p })

\* C10: UniformPortfolio runs every slice for budget / (n * 100), between two
\* consecutive slices of a process every other process not terminated gets
\* exactly one slice, and no slice follows a final answer, which is returned.
C10_UniformRoundRobin ==
    Uniform =>
        /\ \A k \in 1..Len(invocations) :
              /\ invocations[k].duration * (NumSolvers * UniformRounds) = budget
              /\ invocations[k].s \notin invocations[k].term
        /\ LET n == Len(invocations)
               before == IF n = 0 THEN {}
                         ELSE { j \in 1..(n - 1) : invocations[j].s = invocations[n].s }
               prev == IF before = {} THEN 0
                       ELSE CHOOSE j \in before : \A h \in before : h <= j
           IN  n > 0 =>
                 \A q \in Solvers \ {invocations[n].s} :
                    IF prev = 0
                    THEN SlicesBetween(q, 0, n) <= 1
                    ELSE SlicesBetween(q, prev, n) =
                            (IF q \in invocations[prev].term THEN 0 ELSE 1)
        /\ \A k \in 1..Len(outcomes) : outcomes[k] => k = Len(invocations)
        /\ (pc = "loop" \/ (pc = "done" /\ exit = "finished")) => ~SomeFinal
        /\ (pc = "done" /\ SomeFinal) => (result = answer /\ is_final(objective, result))

C10_Witness ==
    /\ Uniform /\ pc = "done" /\ exit = "final"
    /\ budget = 2 * UniformRounds /\ budget_each = 1
    /\ Len(invocations) >= 4
    /\ invocations[Len(invocations)].term # {}

Preplanning == variant = "preplanning"

\* C11: PreplanningPortfolio follows the plan made at construction, entry by
\* entry in plan order and each entry once, and leaves it as it is: a second
\* call with the same task, budget and outcomes issues the same invocations.
C11_PreplanningRepeats ==
    Preplanning =>
        /\ \A k \in 1..Len(invocations) :
              /\ k <= Len(self_plan)
              /\ <<invocations[k].s, invocations[k].b>> = self_plan[k]
              /\ invocations[k].duration = (invocations[k].b + 1) * Interval
        /\ first.called =>
              /\ Len(invocations) <= Len(first.invocations)
              /\ \A k \in 1..Len(invocations) :
                    /\ invocations[k].s = first.invocations[k].s
                    /\ invocations[k].duration = first.invocations[k].duration
              /\ Ended =>
                    /\ Len(invocations) = Len(first.invocations)
                    /\ error = first.error
                    /\ (result = None) = (first.result = None)

C11_Witness ==
    /\ Preplanning /\ first.called /\ pc = "done"
    /\ Len(invocations) = 2
    /\ result # None

\* C12: in OraclePortfolio and PreplanningPortfolio the assertion
\* remaining - this_budget > -1e-1 holds before each invocation, whatever the
\* budget of the call and the plan.
C12_AssertionHolds ==
    variant \in {"oracle", "preplanning"} =>
        /\ error # "AssertionError"
        /\ \A k \in 1..Len(invocations) :
              10 * (invocations[k].left - invocations[k].duration) > -1

\* C13: PureModelPortfolio takes a run without an answer (None) as not final:
\* its (s, b) is appended to the failures, nothing is raised or returned, and
\* the call plans on while iterations and budget are left.
C13_NoneIsAFailure ==
    [][ /\ (Pure /\ pc = "judge" /\ answer = None) =>
              /\ sb = <<invocations[Len(invocations)].s, invocations[Len(invocations)].b>>
              /\ failures' = Append(failures, sb)
              /\ pc' = "loop"
              /\ error' = None /\ result' = None /\ exit' = None
        /\ (Pure /\ pc = "loop" /\ answer = None /\ Len(outcomes) > 0
                 /\ i < runs_limit /\ cpu < budget) =>
              pc' = "plan" ]_vars

C13_Witness ==
    /\ Pure /\ pc = "running"
    /\ answer = None
    /\ Len(outcomes) > 0
    /\ failures # << >>

\* C18: every plan of PureModelPortfolio comes from the initial model, itself
\* never conditioned, conditioned on all failures so far, and uses only bins
\* below ceil(remaining / interval); self._model and the initial model stay as
\* they were.
C18_PlansFromInitialModel ==
    Pure =>
        /\ self_model = TrainedModel
        /\ pc # "start" =>
              initial_model = [weights |-> IF regress THEN "predicted" ELSE "trained",
                               failures |-> << >>]
        /\ (pc = "pop" /\ plan = planned) =>
              /\ model = failures
              /\ remaining_b = CeilDiv(budget - elapsed, Interval)
              /\ \A k \in 1..Len(planned) : planned[k][2] < remaining_b

C18_Witness ==
    /\ Pure /\ regress /\ pc = "pop" /\ plan = planned
    /\ plan # << >>
    /\ Len(model) >= 2
    /\ cpu > 0

\* the answers PseudoBooleanSatisfiability takes as final
FinalTable(obj, ans) ==
    /\ ans # None
    /\ \/ ~obj /\ ans \in {"SATISFIABLE", "UNSATISFIABLE"}
       \/ obj /\ ans \in {"OPTIMUM FOUND", "UNSATISFIABLE"}

\* C19: is_final is false for None; without objective it is true exactly for
\* SATISFIABLE and UNSATISFIABLE, with an objective exactly for OPTIMUM FOUND
\* and UNSATISFIABLE.
C19_IsFinalTable ==
    /\ Len(outcomes) > 0 => outcomes[Len(outcomes)] = FinalTable(objective, answer)
    /\ (pc = "done" /\ exit = "final") => FinalTable(objective, result)
    /\ (Pure /\ failures # << >> /\ pc \in {"loop", "plan", "pop"}) =>
          ~FinalTable(objective, answer)

C19_Witness ==
    /\ Pure /\ objective /\ pc = "loop"
    /\ answer = "SATISFIABLE"
    /\ failures # << >>
    /\ ~outcomes[Len(outcomes)]

\* the fields budget, cost, task and answer that attempt a and attempt b show
SameOutcome(h, a, b) ==
    /\ AttemptBudget(h, a) = AttemptBudget(h, b)
    /\ AttemptCost(h, a) = AttemptCost(h, b)
    /\ AttemptTask(h, a) = AttemptTask(h, b)
    /\ AttemptAnswer(h, a) = AttemptAnswer(h, b)

Present == lookup.name \in DOMAIN environment

\* C14: for a name present in the environment, LookupSolver(name).solve does
\* not fail, invokes the solver registered under the name exactly once with the
\* arguments it was given, and returns an attempt whose solver is the handle,
\* not the resolved solver, and whose budget, cost, task and answer are those
\* of the resolved solver's attempt
C14_SolvePassesThrough ==
    (lookup.op = "solve" /\ Present) =>
        /\ lookup.pc # "raised"
        /\ lookup.pc \in {"inner", "done"} =>
              /\ calls = << Call(environment[lookup.name], "solve") >>
              /\ AttemptSolver(heap, lookup.inner) = SolverRef(environment[lookup.name])
        /\ lookup.pc = "done" =>
              /\ lookup.result.kind = "attempt"
              /\ lookup.result.attempt # lookup.inner
              /\ AttemptSolver(heap, lookup.result.attempt) = HandleRef(lookup.name)
              /\ AttemptSolver(heap, lookup.result.attempt)
                    # AttemptSolver(heap, lookup.inner)
              /\ SameOutcome(heap, lookup.result.attempt, lookup.inner)

C14_Witness ==
    /\ lookup.op = "solve" /\ Present /\ lookup.pc = "done"
    /\ AttemptAnswer(heap, lookup.result.attempt) = "SATISFIABLE"
    /\ AttemptCost(heap, lookup.result.attempt) = 2
    /\ AttemptTask(heap, lookup.result.attempt) = "t2"

\* C15: when the name is absent from the environment, every operation of the
\* handle ends in an error, look_up fails with the lookup error (KeyError), no
\* solver is invoked and no attempt or other result is produced
C15_AbsentNameFails ==
    ~Present =>
        /\ lookup.pc \in {"called", "raised"}
        /\ (lookup.pc = "raised" /\ lookup.op # "preprocess") =>
              lookup.error = "KeyError"
        /\ calls = << >>
        /\ heap = << >>
        /\ lookup.result = NoResult

C15_Witness ==
    /\ ~Present
    /\ lookup.pc = "raised"
    /\ lookup.error = "KeyError"
    /\ lookup.op = "make_task"

\* C16: for a name present in the environment, LookupPreprocessor.preprocess
\* returns a wrapped attempt whose solver is the handle and whose other fields
\* are those of the resolved preprocessor's attempt, and make_task returns the
\* resolved preprocessor's task wrapped with the handle as its preprocessor
C16_PreprocessorWraps ==
    (lookup.kind = "LookupPreprocessor" /\ Present) =>
        /\ (lookup.op = "preprocess" /\ lookup.pc # "called") =>
              /\ lookup.pc = "done"
              /\ lookup.result.kind = "attempt"
              /\ IsWrapped(heap, lookup.result.attempt)
              /\ AttemptSolver(heap, lookup.result.attempt) = HandleRef(lookup.name)
              /\ SameOutcome(heap, lookup.result.attempt, lookup.inner)
        /\ (lookup.op = "make_task" /\ lookup.pc \notin {"called", "resolved"}) =>
              /\ lookup.pc = "done"
              /\ lookup.result.kind \in {"WrappedPreprocessedTask",
                                         "WrappedPreprocessedDirectoryTask"}
              /\ lookup.result.owner = HandleRef(lookup.name)

\* the attempt objects of the heap
Objects(h) == 1..Len(h)

\* C20: budget, cost, task and answer of every attempt are the fields of the
\* innermost attempt that is not a wrapper, at any depth of wrapping; solver
\* is the solver its own constructor was given; and constructing an attempt
\* leaves every attempt that exists as it was
C20_WrappersReadInnermost ==
    [][ /\ \A id \in Objects(heap) : heap'[id] = heap[id]
        /\ \A id \in Objects(heap') :
              LET o == heap'[id].origin
              IN  /\ ~IsWrapped(heap', o)
                  /\ AttemptBudget(heap', id) = heap'[o].budget
                  /\ AttemptCost(heap', id) = heap'[o].cost
                  /\ AttemptTask(heap', id) = heap'[o].task
                  /\ AttemptAnswer(heap', id) = heap'[o].answer
                  /\ AttemptSolver(heap', id) = heap'[id].given ]_vars

C20_Witness ==
    \E id \in Objects(heap) :
        /\ IsWrapped(heap, id)
        /\ IsWrapped(heap, heap[id].inner)
        /\ AttemptSolver(heap, id) # AttemptSolver(heap, heap[id].inner)
        /\ AttemptBudget(heap, id) = 2

\* C21: a call of UniformPortfolio with budget 0, or with a slice that
\* evaluates to 0, issues no invocation and returns None
C21_ZeroSliceInvokesNothing ==
    (Uniform /\ pc # "start" /\ (budget = 0 \/ budget_each = 0)) =>
        /\ invocations = << >>
        /\ Ended => (pc = "done" /\ result = None)

\* C22: in UniformPortfolio the elapsed times of the processes never sum to
\* more than the budget; a slice is issued only while the budget less that sum
\* is at least one slice, and never to a process that is terminated
C22_UniformWithinBudget ==
    (Uniform /\ pc # "start") =>
        /\ SumElapsed(processes, Solvers) <= budget
        /\ \A k \in 1..Len(invocations) :
              /\ invocations[k].left >= invocations[k].duration
              /\ invocations[k].duration = budget_each
              /\ invocations[k].s \notin invocations[k].term

C22_Witness ==
    /\ Uniform /\ pc = "done" /\ budget > 0
    /\ SumElapsed(processes, Solvers) = budget
    /\ Terminated # {}
    /\ Len(invocations) > NumSolvers

\* C23: every duration PureModelPortfolio passes to run_then_stop is strictly
\* positive, also when planning has used CPU time since the budget check
C23_DurationsPositive ==
    Pure => \A k \in 1..Len(invocations) : invocations[k].duration > 0

\* the run of invocation k was allotted all of the bins its plan entry names
FullDuration(k) == invocations[k].duration = (invocations[k].b + 1) * Interval

\* C24: every pair (s, b) in the failures of PureModelPortfolio is that of an
\* invocation allotted the full (b + 1) * interval; a run truncated to the
\* remaining budget is not recorded as a failure
C24_FailuresHadFullDuration ==
    Pure =>
        \A k \in 1..Judged :
            (~outcomes[k] /\ <<invocations[k].s, invocations[k].b>> \in
                                 { failures[j] : j \in 1..Len(failures) })
               => FullDuration(k)
====
